---- MODULE Spec2Model ----
(***************************************************************************)
(* Model of salt/states/icinga2.py: the five state functions               *)
(* generate_ticket, generate_cert, save_cert, request_cert and node_setup. *)
(*                                                                         *)
(* Python values are tagged records.  A Python str is Str(s) with s a      *)
(* sequence of characters, so that `key in grain_value` on a str is a real *)
(* substring test.  The collaborators reached through __salt__ and os.path *)
(* (grains.ls/get/setval, isfile, fopen, the icinga2 executor) are the     *)
(* environment:                                                            *)
(* every call a state function makes is appended to the call log of the    *)
(* invocation, and the executor's retcode, stdout and effect on its files  *)
(* are chosen nondeterministically.                                        *)
(***************************************************************************)
EXTENDS Integers, Sequences, FiniteSets, TLC

\* grains: the minion's grains (name -> value); files: the files that exist
\* (path -> content); last: the latest invocation of a state function;
\* rerun: whether that invocation repeated the one before it (same function,
\* arguments and dry-run flag).
VARIABLES grains, files, last, rerun

vars == <<grains, files, last, rerun>>

\* Longest stdout text the executor returns in the model.
MaxLen == 1

(***************************************************************************)
(* Python values                                                           *)
(***************************************************************************)
None == [t |-> "None"]
Str(s) == [t |-> "str", s |-> s]
Dict(m) == [t |-> "dict", m |-> m]
PyTrue == [t |-> "bool", b |-> TRUE]
PyFalse == [t |-> "bool", b |-> FALSE]

EmptyMap == [k \in {} |-> None]

\* Python truthiness of None / str / bool values: `if grain`, `not key`.
Truthy(v) ==
    CASE v.t = "None" -> FALSE
      [] v.t = "str" -> v.s # <<>>
      [] v.t = "bool" -> v.b
      [] OTHER -> TRUE

\* a is a contiguous subsequence of b (Python `a in b` for two str).
IsSubstr(a, b) ==
    \E i \in 0..(Len(b) - Len(a)) :
        \A j \in 1..Len(a) : b[i + j] = a[j]

\* Python `key in value` for the values a grain holds here: dict membership
\* or str containment.
PyIn(key, value) ==
    IF value.t = "dict" THEN key \in DOMAIN value.m
    ELSE IsSubstr(key.s, value.s)

\* Python `value[key] = v`: a dict is updated, a str raises TypeError.
CanSetItem(value) == value.t = "dict"

\* Mutant: the assignment starts from a fresh dict and loses the other keys.
SetItem_fresh(value, key, v) == Dict([k \in {key} |-> v])

SetItem(value, key, v) ==
    Dict([k \in DOMAIN value.m \cup {key} |-> IF k = key THEN v ELSE value.m[k]])

(***************************************************************************)
(* Collaborators                                                           *)
(***************************************************************************)
\* One collaborator call as a recording stub sees it: what was called, with
\* what, and what came back.
Call(op, args, result) == [op |-> op, args |-> args, result |-> result]

grains_ls(g) == DOMAIN g

grains_get(g, grain) == g[grain]

grains_setval(g, grain, val) ==
    [x \in DOMAIN g \cup {grain} |-> IF x = grain THEN val ELSE g[x]]

isfile(f, path) == path \in DOMAIN f

fopen_write(f, path, text) ==
    [x \in DOMAIN f \cup {path} |-> IF x = path THEN text ELSE f[x]]

get_certs_path == <<"/pki/">>

\* The files an executor run leaves behind: those it made, with opaque content.
Made(f, paths) ==
    [x \in DOMAIN f \cup paths |-> IF x \in DOMAIN f THEN f[x] ELSE Str(<<"pem">>)]

(***************************************************************************)
(* The result record `ret` and what a state function hands back            *)
(***************************************************************************)
Comment(fmt, args) == [fmt |-> fmt, args |-> args]

Ret0(name) ==
    [name |-> name, changes |-> EmptyMap, result |-> PyTrue,
     comment |-> Comment("", <<>>)]

\* The outcome of one invocation: the record returned (or the exception), the
\* collaborator calls made in order, and the grains and files left behind.
Outcome(ret, raised, log, g, f) ==
    [ret |-> ret, raised |-> raised, log |-> log, grains |-> g, files |-> f]

\* A check phase either returns `ret` to the caller or falls through to the
\* executor call.
Return(ret, log) == [done |-> TRUE, ret |-> ret, log |-> log]
Continue(ret, log) == [done |-> FALSE, ret |-> ret, log |-> log]

(***************************************************************************)
(* generate_ticket: checking if execution is needed                        *)
(***************************************************************************)
\* Mutant: a grain that is set is never overwritten.
ticket_check_flat_keep(ret, grain, overwrite, test, g) ==
    LET log == <<Call("grains.ls", <<>>, grains_ls(g))>>
    IN  IF grain \in grains_ls(g)
        THEN Return([ret EXCEPT !.comment =
                        Comment("No execution needed. Grain {} already set", <<grain>>)],
                    log)
        ELSE IF test
        THEN Return([ret EXCEPT !.result = None,
                                !.comment = Comment(
                        "Ticket generation would be executed, storing result in grain: {}",
                        <<grain>>)],
                    log)
        ELSE Continue(ret, log)

\* output == "grain", grain and not key.
ticket_check_flat(ret, grain, overwrite, test, g) ==
    LET log == IF ~overwrite THEN <<Call("grains.ls", <<>>, grains_ls(g))>> ELSE <<>>
    IN  IF ~overwrite /\ grain \in grains_ls(g)
        THEN Return([ret EXCEPT !.comment =
                        Comment("No execution needed. Grain {} already set", <<grain>>)],
                    log)
        ELSE IF test
        THEN Return([ret EXCEPT !.result = None,
                                !.comment = Comment(
                        "Ticket generation would be executed, storing result in grain: {}",
                        <<grain>>)],
                    log)
        ELSE Continue(ret, log)

\* output == "grain", grain and key.
ticket_check_nested(ret, grain, key, overwrite, test, g) ==
    LET present == grain \in grains_ls(g)
        grain_value == IF present THEN grains_get(g, grain) ELSE Dict(EmptyMap)
        log == <<Call("grains.ls", <<>>, grains_ls(g))>>
               \o (IF present THEN <<Call("grains.get", <<grain>>, grain_value)>> ELSE <<>>)
    IN  IF ~overwrite /\ PyIn(key, grain_value)
        THEN Return([ret EXCEPT !.comment =
                        Comment("No execution needed. Grain {}:{} already set",
                                <<grain, key>>)],
                    log)
        ELSE IF test
        THEN Return([ret EXCEPT !.result = None,
                                !.comment = Comment(
                        "Ticket generation would be executed, storing result in grain: {}:{}",
                        <<grain, key>>)],
                    log)
        ELSE Continue(ret, log)

\* output == "grain" and no grain.
ticket_usage_error(ret) ==
    Return([ret EXCEPT !.result = PyFalse,
                       !.comment = Comment(
                           "Error: output type 'grain' needs the grain parameter\n", <<>>)],
           <<>>)

\* Mutant: the overwrite flag is read the wrong way round.
ticket_check_file_inverted(ret, output, overwrite, test, f) ==
    LET log == IF overwrite
               THEN <<Call("os.path.isfile", <<output>>, isfile(f, output))>> ELSE <<>>
    IN  IF overwrite /\ isfile(f, output)
        THEN Return([ret EXCEPT !.comment =
                        Comment("No execution needed. File {} already set", <<output>>)],
                    log)
        ELSE IF test
        THEN Return([ret EXCEPT !.result = None,
                                !.comment = Comment(
                        "Ticket generation would be executed, storing result in file: {}",
                        <<output>>)],
                    log)
        ELSE Continue(ret, log)

\* output is a file name.
ticket_check_file(ret, output, overwrite, test, f) ==
    LET log == IF ~overwrite THEN <<Call("os.path.isfile", <<output>>, isfile(f, output))>> ELSE <<>>
    IN  IF ~overwrite /\ isfile(f, output)
        THEN Return([ret EXCEPT !.comment =
                        Comment("No execution needed. File {} already set", <<output>>)],
                    log)
        ELSE IF test
        THEN Return([ret EXCEPT !.result = None,
                                !.comment = Comment(
                        "Ticket generation would be executed, storing result in file: {}",
                        <<output>>)],
                    log)
        ELSE Continue(ret, log)

\* output is None or empty.
ticket_check_none(ret, test) ==
    IF test
    THEN Return([ret EXCEPT !.result = None,
                            !.comment = Comment(
                    "Ticket generation would be executed, not storing result", <<>>)],
                <<>>)
    ELSE Continue(ret, <<>>)

GRAIN == Str(<<"grain">>)

\* Mutant: the missing grain name is reported only outside a dry run.
ticket_check_dry_run_first(ret, output, grain, key, overwrite, test, g, f) ==
    IF output = GRAIN
    THEN IF Truthy(grain) /\ ~Truthy(key)
         THEN ticket_check_flat(ret, grain, overwrite, test, g)
         ELSE IF Truthy(grain)
         THEN ticket_check_nested(ret, grain, key, overwrite, test, g)
         ELSE IF test
         THEN ticket_check_none(ret, test)
         ELSE ticket_usage_error(ret)
    ELSE IF Truthy(output)
    THEN ticket_check_file(ret, output, overwrite, test, f)
    ELSE ticket_check_none(ret, test)

ticket_check(ret, output, grain, key, overwrite, test, g, f) ==
    IF output = GRAIN
    THEN IF Truthy(grain) /\ ~Truthy(key)
         THEN ticket_check_flat(ret, grain, overwrite, test, g)
         ELSE IF Truthy(grain)
         THEN ticket_check_nested(ret, grain, key, overwrite, test, g)
         ELSE ticket_usage_error(ret)
    ELSE IF Truthy(output)
    THEN ticket_check_file(ret, output, overwrite, test, f)
    ELSE ticket_check_none(ret, test)

(***************************************************************************)
(* generate_ticket: executing the command and storing the ticket           *)
(***************************************************************************)
Changed(ret, what, fmt, args) ==
    [ret EXCEPT !.changes =
        [k \in DOMAIN ret.changes \cup {what} |->
            IF k = what THEN Comment(fmt, args) ELSE ret.changes[k]]]

ticket_store_flat(ret, grain, ticket, log, g, f) ==
    Outcome(Changed(ret, "ticket", "Executed. Output into grain: {}", <<grain>>),
            FALSE,
            log \o <<Call("grains.setval", <<grain, ticket>>, None)>>,
            grains_setval(g, grain, ticket), f)

ticket_store_nested(ret, grain, key, ticket, log, g, f) ==
    LET present == grain \in grains_ls(g)
        grain_value == IF present THEN grains_get(g, grain) ELSE Dict(EmptyMap)
        log1 == log \o <<Call("grains.ls", <<>>, grains_ls(g))>>
                \o (IF present THEN <<Call("grains.get", <<grain>>, grain_value)>> ELSE <<>>)
    IN  IF ~CanSetItem(grain_value)
        THEN Outcome(ret, TRUE, log1, g, f)
        ELSE LET new_value == SetItem(grain_value, key, ticket)
             IN  Outcome(Changed(ret, "ticket", "Executed. Output into grain: {}:{}",
                                 <<grain, key>>),
                         FALSE,
                         log1 \o <<Call("grains.setval", <<grain, new_value>>, None)>>,
                         grains_setval(g, grain, new_value), f)

ticket_store_file(ret, output, ticket, log, g, f) ==
    Outcome(Changed(ret, "ticket", "Executed. Output into {}", <<output>>),
            FALSE,
            log \o <<Call("fopen.write", <<output, ticket>>, None)>>,
            g, fopen_write(f, output, ticket))

ticket_store_none(ret, log, g, f) ==
    Outcome(Changed(ret, "ticket", "Executed", <<>>), FALSE, log, g, f)

ticket_store(ret, output, grain, key, ticket, log, g, f) ==
    IF output = GRAIN
    THEN IF Truthy(grain) /\ ~Truthy(key)
         THEN ticket_store_flat(ret, grain, ticket, log, g, f)
         ELSE IF Truthy(grain)
         THEN ticket_store_nested(ret, grain, key, ticket, log, g, f)
         ELSE Outcome(ret, FALSE, log, g, f)
    ELSE IF Truthy(output)
    THEN ticket_store_file(ret, output, ticket, log, g, f)
    ELSE ticket_store_none(ret, log, g, f)

\* Mutant: the comment carries the executor's output whatever the retcode.
ticket_comment_always(ret, ticket_res) ==
    [ret EXCEPT !.comment = Comment("{}", <<ticket_res.stdout>>)]

\* The comment carries the ticket only when the retcode is zero.
ticket_comment(ret, ticket_res) ==
    IF ticket_res.retcode = 0
    THEN [ret EXCEPT !.comment = Comment("{}", <<ticket_res.stdout>>)]
    ELSE ret

generate_ticket(name, output, grain, key, overwrite, salt, test, g, f, ticket_res) ==
    LET chk == ticket_check(Ret0(name), output, grain, key, overwrite, test, g, f)
    IN  IF chk.done
        THEN Outcome(chk.ret, FALSE, chk.log, g, f)
        ELSE ticket_store(ticket_comment(chk.ret, ticket_res), output, grain, key,
                          ticket_res.stdout,
                          chk.log \o <<Call("icinga2.generate_ticket", <<name, salt>>, ticket_res)>>,
                          g, f)

(***************************************************************************)
(* generate_cert, save_cert, request_cert, node_setup                      *)
(***************************************************************************)
CertPath(name) == Str(get_certs_path \o name.s \o <<".crt">>)
KeyPath(name) == Str(get_certs_path \o name.s \o <<".key">>)
TrustedParentPath == Str(get_certs_path \o <<"trusted-parent.crt">>)
CaPath == Str(get_certs_path \o <<"ca.crt">>)
CertOrigPath(name) == Str(get_certs_path \o name.s \o <<".crt.orig">>)
KeyOrigPath(name) == Str(get_certs_path \o name.s \o <<".key.orig">>)

\* `os.path.isfile(a) and os.path.isfile(b)`: b is probed only when a exists.
BothFiles(f, a, b) == isfile(f, a) /\ isfile(f, b)

BothFilesLog(f, a, b) ==
    <<Call("os.path.isfile", <<a>>, isfile(f, a))>>
    \o (IF isfile(f, a) THEN <<Call("os.path.isfile", <<b>>, isfile(f, b))>> ELSE <<>>)

\* Mutant: the dry-run check is missing.
generate_cert_check_no_dry_run(ret, cert, key, test, f) ==
    IF BothFiles(f, cert, key)
    THEN Return([ret EXCEPT !.comment = Comment(
                    "No execution needed. Cert: {} and key: {} already generated.",
                    <<cert, key>>)],
                BothFilesLog(f, cert, key))
    ELSE Continue(ret, BothFilesLog(f, cert, key))

generate_cert_check(ret, cert, key, test, f) ==
    IF BothFiles(f, cert, key)
    THEN Return([ret EXCEPT !.comment = Comment(
                    "No execution needed. Cert: {} and key: {} already generated.",
                    <<cert, key>>)],
                BothFilesLog(f, cert, key))
    ELSE IF test
    THEN Return([ret EXCEPT !.result = None,
                            !.comment = Comment(
                    "Certificate and key generation would be executed", <<>>)],
                BothFilesLog(f, cert, key))
    ELSE Continue(ret, BothFilesLog(f, cert, key))

generate_cert_result(ret, cert, key, cert_save) ==
    IF cert_save.retcode = 0
    THEN Changed(Changed([ret EXCEPT !.comment =
                              Comment("Certificate and key generated", <<>>)],
                         "cert", "Executed. Certificate saved: {}", <<cert>>),
                 "key", "Executed. Key saved: {}", <<key>>)
    ELSE ret

generate_cert(name, test, g, f, cert_save) ==
    LET cert == CertPath(name)
        key == KeyPath(name)
        chk == generate_cert_check(Ret0(name), cert, key, test, f)
    IN  IF chk.done
        THEN Outcome(chk.ret, FALSE, chk.log, g, f)
        ELSE Outcome(generate_cert_result(chk.ret, cert, key, cert_save), FALSE,
                     chk.log \o <<Call("icinga2.generate_cert", <<name>>, cert_save)>>,
                     g, Made(f, cert_save.made))

save_cert_check(ret, cert, test, f) ==
    LET log == <<Call("os.path.isfile", <<cert>>, isfile(f, cert))>>
    IN  IF isfile(f, cert)
        THEN Return([ret EXCEPT !.comment = Comment(
                        "No execution needed. Cert: {} already saved.", <<cert>>)],
                    log)
        ELSE IF test
        THEN Return([ret EXCEPT !.result = None,
                                !.comment = Comment(
                        "Certificate save for icinga2 parent would be executed", <<>>)],
                    log)
        ELSE Continue(ret, log)

save_cert_result(ret, cert, cert_save) ==
    IF cert_save.retcode = 0
    THEN Changed([ret EXCEPT !.comment =
                      Comment("Certificate for icinga2 parent saved", <<>>)],
                 "cert", "Executed. Certificate saved: {}", <<cert>>)
    ELSE ret

save_cert(name, parent, test, g, f, cert_save) ==
    LET cert == TrustedParentPath
        chk == save_cert_check(Ret0(name), cert, test, f)
    IN  IF chk.done
        THEN Outcome(chk.ret, FALSE, chk.log, g, f)
        ELSE Outcome(save_cert_result(chk.ret, cert, cert_save), FALSE,
                     chk.log \o <<Call("icinga2.save_cert", <<name, parent>>, cert_save)>>,
                     g, Made(f, cert_save.made))

request_cert_check(ret, cert, test, f) ==
    LET log == <<Call("os.path.isfile", <<cert>>, isfile(f, cert))>>
    IN  IF isfile(f, cert)
        THEN Return([ret EXCEPT !.comment = Comment(
                        "No execution needed. Cert: {} already exists.", <<cert>>)],
                    log)
        ELSE IF test
        THEN Return([ret EXCEPT !.result = None,
                                !.comment = Comment(
                        "Certificate request from icinga2 parent would be executed",
                        <<>>)],
                    log)
        ELSE Continue(ret, log)

\* Mutant: a failed request is reported the way generate_cert reports one.
request_cert_result_silent(ret, cert, cert_request) ==
    IF cert_request.retcode = 0
    THEN Changed([ret EXCEPT !.comment =
                      Comment("Certificate request from icinga2 parent executed", <<>>)],
                 "cert", "Executed. Certificate requested: {}", <<cert>>)
    ELSE ret

request_cert_result(ret, cert, cert_request) ==
    IF cert_request.retcode = 0
    THEN Changed([ret EXCEPT !.comment =
                      Comment("Certificate request from icinga2 parent executed", <<>>)],
                 "cert", "Executed. Certificate requested: {}", <<cert>>)
    ELSE [ret EXCEPT !.comment = Comment(
                         "FAILED. Certificate requested failed with output: {}",
                         <<cert_request.stdout>>),
                     !.result = PyFalse]

request_cert(name, parent, ticket, port, test, g, f, cert_request) ==
    LET cert == CaPath
        chk == request_cert_check(Ret0(name), cert, test, f)
    IN  IF chk.done
        THEN Outcome(chk.ret, FALSE, chk.log, g, f)
        ELSE Outcome(request_cert_result(chk.ret, cert, cert_request), FALSE,
                     chk.log \o <<Call("icinga2.request_cert",
                                       <<name, parent, ticket, port>>, cert_request)>>,
                     g, Made(f, cert_request.made))

\* Mutant: the check probes the certificate and the key.
node_setup_check_cert_and_key(ret, cert, key, test, f) ==
    IF BothFiles(f, cert, key)
    THEN Return([ret EXCEPT !.comment = Comment(
                    "No execution needed. Node already configured.", <<>>)],
                BothFilesLog(f, cert, key))
    ELSE IF test
    THEN Return([ret EXCEPT !.result = None,
                            !.comment = Comment("Node setup will be executed.", <<>>)],
                BothFilesLog(f, cert, key))
    ELSE Continue(ret, BothFilesLog(f, cert, key))

\* The check probes `cert` twice; `key` is computed and never probed.
node_setup_check(ret, cert, key, test, f) ==
    IF BothFiles(f, cert, cert)
    THEN Return([ret EXCEPT !.comment = Comment(
                    "No execution needed. Node already configured.", <<>>)],
                BothFilesLog(f, cert, cert))
    ELSE IF test
    THEN Return([ret EXCEPT !.result = None,
                            !.comment = Comment("Node setup will be executed.", <<>>)],
                BothFilesLog(f, cert, cert))
    ELSE Continue(ret, BothFilesLog(f, cert, cert))

node_setup_result(ret, res) ==
    IF res.retcode = 0
    THEN Changed([ret EXCEPT !.comment = Comment("Node setup executed.", <<>>)],
                 "cert", "Node setup finished successfully.", <<>>)
    ELSE [ret EXCEPT !.comment = Comment("FAILED. Node setup failed with outpu: {}",
                                         <<res.stdout>>),
                     !.result = PyFalse]

node_setup(name, parent, ticket, test, g, f, res) ==
    LET cert == CertOrigPath(name)
        key == KeyOrigPath(name)
        chk == node_setup_check(Ret0(name), cert, key, test, f)
    IN  IF chk.done
        THEN Outcome(chk.ret, FALSE, chk.log, g, f)
        ELSE Outcome(node_setup_result(chk.ret, res), FALSE,
                     chk.log \o <<Call("icinga2.node_setup", <<name, parent, ticket>>, res)>>,
                     g, Made(f, res.made))

(***************************************************************************)
(* Inputs                                                                  *)
(***************************************************************************)
RECURSIVE Repeat(_, _)
Repeat(c, n) == IF n = 0 THEN <<>> ELSE <<c>> \o Repeat(c, n - 1)

\* What the executor prints: a non-empty text of up to MaxLen characters.
Texts == {Str(Repeat("7", n)) : n \in 1..MaxLen}

Retcodes == {0, 1}

\* What an executor run yields: retcode, stdout, and the files it made among
\* the ones the state function probes or names.
Results(paths) ==
    [retcode : Retcodes, stdout : Texts, made : SUBSET paths]

\* The executor's answer is drawn only when the invocation reaches the call.
NotCalled == [retcode |-> 0, stdout |-> Str(<<>>), made |-> {}]

ResultsIf(called, paths) == IF called THEN Results(paths) ELSE {NotCalled}

NAME == Str(<<"node">>)
PARENT == Str(<<"master">>)
TICKET == Str(<<"7">>)
SALT == Str(<<"secret">>)
PORT == Str(<<"5665">>)
OUTFILE == Str(<<"/tmp/query_id.txt">>)

G1 == Str(<<"g">>)
G2 == Str(<<"h">>)
K1 == Str(<<"7">>)
K2 == Str(<<"k">>)
EMPTY == Str(<<>>)

PyInt(n) == [t |-> "int", n |-> n]

ExecutorOps ==
    {"icinga2.generate_ticket", "icinga2.generate_cert", "icinga2.save_cert",
     "icinga2.request_cert", "icinga2.node_setup"}

NCalls(log, ops) == Cardinality({i \in DOMAIN log : log[i].op \in ops})

Executed(log) == NCalls(log, ExecutorOps) > 0

SameCall(inv, fn, args, test) ==
    inv.fn = fn /\ inv.args = args /\ inv.test = test

Invocation(fn, args, test, o, res) ==
    [fn |-> fn, args |-> args, test |-> test, ret |-> o.ret, raised |-> o.raised,
     log |-> o.log, res |-> IF Executed(o.log) THEN res ELSE None]

\* The step an invocation takes: the collaborators' state after it, and the
\* record of the invocation.
Invoke(fn, args, test, o, res) ==
    /\ grains' = o.grains
    /\ files' = o.files
    /\ last' = Invocation(fn, args, test, o, res)
    /\ rerun' = SameCall(last, fn, args, test)

(***************************************************************************)
(* Actions: one invocation of a state function                             *)
(***************************************************************************)
GenerateTicket(Targets) ==
    \E target \in Targets, overwrite \in BOOLEAN, test \in BOOLEAN :
      LET output == target.output
          grain == target.grain
          key == target.key
      IN
      \E ticket_res \in ResultsIf(
            ~ticket_check(Ret0(NAME), output, grain, key, overwrite, test,
                          grains, files).done, {}) :
        LET o == generate_ticket(NAME, output, grain, key, overwrite, SALT, test,
                                 grains, files, ticket_res)
        IN  Invoke("generate_ticket",
                                  [name |-> NAME, output |-> output, grain |-> grain,
                                   key |-> key, overwrite |-> overwrite, salt |-> SALT],
                                  test, o, ticket_res)

GenerateCert ==
    \E test \in BOOLEAN :
      \E cert_save \in ResultsIf(
            ~generate_cert_check(Ret0(NAME), CertPath(NAME), KeyPath(NAME), test,
                                 files).done,
            {CertPath(NAME), KeyPath(NAME)}) :
        LET o == generate_cert(NAME, test, grains, files, cert_save)
        IN  Invoke("generate_cert", [name |-> NAME], test, o, cert_save)

SaveCert ==
    \E test \in BOOLEAN :
      \E cert_save \in ResultsIf(
            ~save_cert_check(Ret0(NAME), TrustedParentPath, test, files).done,
            {TrustedParentPath}) :
        LET o == save_cert(NAME, PARENT, test, grains, files, cert_save)
        IN  Invoke("save_cert", [name |-> NAME, parent |-> PARENT],
                                  test, o, cert_save)

RequestCert ==
    \E test \in BOOLEAN :
      \E cert_request \in ResultsIf(
            ~request_cert_check(Ret0(NAME), CaPath, test, files).done, {CaPath}) :
        LET o == request_cert(NAME, PARENT, TICKET, PORT, test, grains, files,
                              cert_request)
        IN  Invoke("request_cert",
                                  [name |-> NAME, parent |-> PARENT, ticket |-> TICKET,
                                   port |-> PORT],
                                  test, o, cert_request)

NodeSetup ==
    \E test \in BOOLEAN :
      \E res \in ResultsIf(
            ~node_setup_check(Ret0(NAME), CertOrigPath(NAME), KeyOrigPath(NAME), test,
                              files).done,
            {CertOrigPath(NAME)}) :
        LET o == node_setup(NAME, PARENT, TICKET, test, grains, files, res)
        IN  Invoke("node_setup",
                                  [name |-> NAME, parent |-> PARENT, ticket |-> TICKET],
                                  test, o, res)

NoCall ==
    [fn |-> "none", args |-> None, test |-> FALSE, ret |-> None, raised |-> FALSE,
     log |-> <<>>, res |-> None]

(***************************************************************************)
(* Specifications                                                          *)
(***************************************************************************)
\* All five state functions on a fresh minion; tickets go to one grain, one
\* sub-key and one file.
Target(output, grain, key) == [output |-> output, grain |-> grain, key |-> key]

Modes ==
    {Target(None, None, None), Target(OUTFILE, None, None), Target(GRAIN, None, None),
     Target(GRAIN, G1, None), Target(GRAIN, G1, K1)}

Init ==
    /\ grains = EmptyMap
    /\ files = EmptyMap
    /\ last = NoCall
    /\ rerun = FALSE

Next ==
    \/ GenerateTicket(Modes)
    \/ GenerateCert
    \/ SaveCert
    \/ RequestCert
    \/ NodeSetup

Spec == Init /\ [][Next]_vars

\* generate_ticket alone, over two grains and two sub-keys, starting from
\* grains that already hold a mapping with a foreign entry.
StartGrains ==
    {[x \in S |-> Dict([k \in {K2} |-> PyInt(1)])] : S \in SUBSET {G1, G2}}

AllTargets ==
    {Target(GRAIN, grain, key) :
        grain \in {None, EMPTY, G1}, key \in {None, EMPTY, K1, K2}}
    \cup {Target(output, grain, None) :
            output \in {None, EMPTY, OUTFILE}, grain \in {None, G1}}
    \cup {Target(OUTFILE, G1, K1)}

InitTicket ==
    /\ grains \in StartGrains
    /\ files = EmptyMap
    /\ last = NoCall
    /\ rerun = FALSE

NextTicket == GenerateTicket(AllTargets)

SpecTicket == InitTicket /\ [][NextTicket]_vars

(***************************************************************************)
(* Vocabulary of the properties                                            *)
(***************************************************************************)
\* A state function has been invoked.
Called == last.fn # "none"

\* The latest invocation returned its record (it did not raise).
Returned == Called /\ ~last.raised

\* ret['changes'] == {}.
NoChanges(inv) == DOMAIN inv.ret.changes = {}

WriteOps == {"grains.setval", "fopen.write"}

\* The rendered comment contains `text`: one of the values formatted into it
\* does.  The fixed wording of the comments holds no character of a stdout text.
Contains(comment, text) ==
    \E i \in DOMAIN comment.args :
        comment.args[i].t = "str" /\ IsSubstr(text.s, comment.args[i].s)

\* The invocation reached the executor, which returned a non-zero retcode.
ExecFailed(inv) == Executed(inv.log) /\ inv.res.retcode # 0

(***************************************************************************)
(* Modes of generate_ticket, read off its arguments                        *)
(***************************************************************************)
FlatMode(a) == a.output = GRAIN /\ Truthy(a.grain) /\ ~Truthy(a.key)

NestedMode(a) == a.output = GRAIN /\ Truthy(a.grain) /\ Truthy(a.key)

FileMode(a) == a.output # GRAIN /\ Truthy(a.output)

\* The calls of the log that write, in order.
RECURSIVE Writes(_)
Writes(log) ==
    IF log = <<>> THEN <<>>
    ELSE (IF Head(log).op \in WriteOps
          THEN <<[op |-> Head(log).op, args |-> Head(log).args]>> ELSE <<>>)
         \o Writes(Tail(log))

\* The mapping a nested grain holds before the call: empty when there is no
\* such grain.
MappingOf(g, grain) == IF grain \in DOMAIN g THEN g[grain].m ELSE EmptyMap

HoldsMapping(g, grain) == grain \notin DOMAIN g \/ g[grain].t = "dict"

\* g2 is g with `grain` set to `val` and every other grain as it was.
OnlyGrainSet(g, g2, grain, val) ==
    /\ DOMAIN g2 = DOMAIN g \cup {grain}
    /\ g2[grain] = val
    /\ \A x \in DOMAIN g \ {grain} : g2[x] = g[x]

\* The destination generate_ticket was asked to store into is already there.
TargetExists(a, g, f) ==
    \/ FlatMode(a) /\ a.grain \in DOMAIN g
    \/ NestedMode(a) /\ a.grain \in DOMAIN g /\ g[a.grain].t = "dict"
         /\ a.key \in DOMAIN g[a.grain].m
    \/ FileMode(a) /\ a.output \in DOMAIN f

\* The destination holds `text`.
TargetHolds(a, g, f, text) ==
    \/ FlatMode(a) /\ a.grain \in DOMAIN g /\ g[a.grain] = text
    \/ NestedMode(a) /\ a.grain \in DOMAIN g /\ g[a.grain].t = "dict"
         /\ a.key \in DOMAIN g[a.grain].m /\ g[a.grain].m[a.key] = text
    \/ FileMode(a) /\ a.output \in DOMAIN f /\ f[a.output] = text

\* `key in value` as Python decides it for a mapping or a string.
SubKeyIn(key, value) ==
    \/ value.t = "dict" /\ key \in DOMAIN value.m
    \/ value.t = "str" /\ IsSubstr(key.s, value.s)

\* The satisfaction predicate of state function `fn` called with `a`, on the
\* grains g and files f it finds.
Satisfied(fn, a, g, f) ==
    CASE fn = "generate_ticket" ->
            /\ ~a.overwrite
            /\ \/ FlatMode(a) /\ a.grain \in DOMAIN g
               \/ NestedMode(a) /\ a.grain \in DOMAIN g /\ SubKeyIn(a.key, g[a.grain])
               \/ FileMode(a) /\ a.output \in DOMAIN f
      [] fn = "generate_cert" ->
            CertPath(a.name) \in DOMAIN f /\ KeyPath(a.name) \in DOMAIN f
      [] fn = "save_cert" -> TrustedParentPath \in DOMAIN f
      [] fn = "request_cert" -> CaPath \in DOMAIN f
      [] fn = "node_setup" -> CertOrigPath(a.name) \in DOMAIN f

\* The comments that start with 'No execution needed'.
NoExecutionNeeded ==
    {"No execution needed. Grain {} already set",
     "No execution needed. Grain {}:{} already set",
     "No execution needed. File {} already set",
     "No execution needed. Cert: {} and key: {} already generated.",
     "No execution needed. Cert: {} already saved.",
     "No execution needed. Cert: {} already exists.",
     "No execution needed. Node already configured."}

\* The record of a short-circuit: success, no changes, 'No execution needed'.
ShortCircuited(inv) ==
    /\ ~inv.raised
    /\ inv.ret.result = PyTrue
    /\ NoChanges(inv)
    /\ inv.ret.comment.fmt \in NoExecutionNeeded

\* The writes generate_ticket called with `a` is to make.
ExpectedWrites(a) ==
    IF FlatMode(a) \/ NestedMode(a) THEN <<"grains.setval">>
    ELSE IF FileMode(a) THEN <<"fopen.write">>
    ELSE <<>>

WriteOpsOf(log) == [i \in DOMAIN Writes(log) |-> Writes(log)[i].op]

\* The invocation repeats the one before it, dry-run off, overwrite disabled.
Repeats(inv) ==
    /\ rerun
    /\ ~inv.test
    /\ inv.fn = "generate_ticket" => ~inv.args.overwrite

(***************************************************************************)
(* C1  Dry-run purity.  An invocation with __opts__['test'] set returns a  *)
(* record with empty changes, calls neither the executor nor grains.setval *)
(* nor the file write, and leaves grains and files as they were; a record  *)
(* whose result is None has empty changes.                                 *)
(***************************************************************************)
C1_DryRunPurity ==
    [][ /\ last'.test =>
            /\ ~last'.raised
            /\ NoChanges(last')
            /\ NCalls(last'.log, ExecutorOps \cup WriteOps) = 0
            /\ grains' = grains
            /\ files' = files
        /\ (~last'.raised /\ last'.ret.result = None) => NoChanges(last')
      ]_vars

C1_Witness ==
    /\ last.fn = "generate_ticket"
    /\ last.test
    /\ last.args.output = GRAIN
    /\ last.args.key = K1
    /\ last.ret.result = None
    /\ G1 \in DOMAIN grains

C3_ExecErrorIsFailure ==
    (Called /\ ExecFailed(last)) =>
        /\ ~last.raised
        /\ last.ret.result = PyFalse
        /\ Contains(last.ret.comment, last.res.stdout)

(***************************************************************************)
(* C4  Usage-error priority.  generate_ticket with output='grain' and no   *)
(* grain name (None or empty) returns result False with empty changes,     *)
(* whatever the dry-run flag, overwrite and key, without any call to       *)
(* grains.ls, grains.get, grains.setval, the file probe or the executor.   *)
(***************************************************************************)
C4_UsageErrorPriority ==
    [][ (/\ last'.fn = "generate_ticket"
         /\ last'.args.output = GRAIN
         /\ ~Truthy(last'.args.grain))
        => /\ ~last'.raised
           /\ last'.ret.result = PyFalse
           /\ NoChanges(last')
           /\ last'.log = <<>>
           /\ grains' = grains
           /\ files' = files
      ]_vars

C4_Witness ==
    /\ last.fn = "generate_ticket"
    /\ last.args.output = GRAIN
    /\ last.args.grain = EMPTY
    /\ last.args.key = K1
    /\ last.args.overwrite
    /\ last.test
    /\ last.ret.result = PyFalse
    /\ G1 \in DOMAIN grains

(***************************************************************************)
(* C5  Nested-grain merge.  When generate_ticket, dry-run off, with        *)
(* output='grain', a grain name and a sub-key k reaches the executor, and  *)
(* the grain holds a mapping M (the empty mapping when there is no such    *)
(* grain), the one value written with grains.setval is M with k mapped to  *)
(* the executor's stdout and every other key of M unchanged; no other      *)
(* grain and no file is written.                                           *)
(***************************************************************************)
C5_NestedGrainMerge ==
    [][ LET a == last'.args
            M == MappingOf(grains, a.grain)
            w == Writes(last'.log)
        IN  (/\ last'.fn = "generate_ticket"
             /\ ~last'.test
             /\ NestedMode(a)
             /\ HoldsMapping(grains, a.grain)
             /\ (a.overwrite \/ a.key \notin DOMAIN M))
            => /\ ~last'.raised
               /\ Len(w) = 1
               /\ w[1].op = "grains.setval"
               /\ w[1].args[1] = a.grain
               /\ w[1].args[2].t = "dict"
               /\ DOMAIN w[1].args[2].m = DOMAIN M \cup {a.key}
               /\ w[1].args[2].m[a.key] = last'.res.stdout
               /\ \A k \in DOMAIN M \ {a.key} : w[1].args[2].m[k] = M[k]
               /\ OnlyGrainSet(grains, grains', a.grain, w[1].args[2])
               /\ files' = files
      ]_vars

C5_Witness ==
    /\ last.fn = "generate_ticket"
    /\ ~last.test
    /\ NestedMode(last.args)
    /\ last.args.key = K1
    /\ Executed(last.log)
    /\ \E i \in DOMAIN last.log :
          /\ last.log[i].op = "grains.get"
          /\ last.log[i].result = Dict([k \in {K2} |-> PyInt(1)])
    /\ grains[last.args.grain] =
          Dict([k \in {K1, K2} |-> IF k = K1 THEN last.res.stdout ELSE PyInt(1)])
    /\ G2 \in DOMAIN grains

(***************************************************************************)
(* C6  Executor failure propagation.  request_cert with ca.crt absent and  *)
(* node_setup with <name>.crt.orig absent, dry-run off, call their         *)
(* executor; when it returns a non-zero retcode with stdout S the record   *)
(* has result False, empty changes and a comment containing S.             *)
(***************************************************************************)
C6_FailurePropagation ==
    [][ /\ ~last'.test
        /\ \/ last'.fn = "request_cert" /\ ~isfile(files, CaPath)
           \/ last'.fn = "node_setup" /\ ~isfile(files, CertOrigPath(NAME))
        => /\ NCalls(last'.log, {"icinga2." \o last'.fn}) = 1
           /\ last'.res.retcode # 0 =>
                /\ ~last'.raised
                /\ last'.ret.result = PyFalse
                /\ NoChanges(last')
                /\ Contains(last'.ret.comment, last'.res.stdout)
                /\ last'.ret.comment.args = <<last'.res.stdout>>
      ]_vars

C6_Witness ==
    /\ last.fn = "request_cert"
    /\ ExecFailed(last)
    /\ last.ret.result = PyFalse
    /\ ~isfile(files, CaPath)

C8_SuccessHasChanges ==
    (Returned /\ Executed(last.log) /\ last.ret.result = PyTrue) => ~NoChanges(last)

====
